---- MODULE Spec2Model ----
(***************************************************************************)
(* A model of two parts of the Lurch sources:                              *)
(*   - the expository-math atom: its edit dialog and its installation in   *)
(*     the editor (src/expository-math.js), and                            *)
(*   - the settings metadata classes (src/unnamed/part_000).               *)
(*                                                                         *)
(* Four specifications share the variables of the module; each leaves the  *)
(* variables of the other parts at their initial values:                   *)
(*   SpecInstall   install( editor ): the menu item, the 'init' event and  *)
(*                 the keypress listener of the document body;             *)
(*   SpecEdit      one call of ExpositoryMath.edit(), from the opening of  *)
(*                 the dialog to the resolution of the promise;            *)
(*   SpecSetting   one setting's metadata: the constructors of the leaf    *)
(*                 classes, convert() and control();                       *)
(*   SpecSettings  a collection of categories of settings: the             *)
(*                 constructors of SettingsCategoryMetadata and            *)
(*                 SettingsMetadata, keys(), defaultSettings(),            *)
(*                 metadataFor() and control().                            *)
(***************************************************************************)
EXTENDS Integers, Sequences, FiniteSets, TLC

VARIABLES
    \* ---- ExpositoryMath.edit() ----
    mode,        \* appSettings.get( 'expository math editor type' )
    latexMeta,   \* the atom's 'latex' metadata
    body,        \* the atom's 'body' child, as filled by update()
    pc,          \* "idle" (edit() not called), "open" (dialog shown), "done"
    inputValue,  \* value of the dialog's LaTeX text input element
    mathValue,   \* value of the MathLive editor of the 'preview' item
    okEnabled,   \* whether the dialog's OK button is enabled
    userHitOK,   \* what dialog.show() resolved to: did the user hit OK?
    result,      \* the promise returned by edit()
    calls,       \* the atom's methods called when the dialog closed, in order
    \* ---- settings metadata ----
    this,        \* SpecSetting: the setting most recently constructed
    contents,    \* SpecSettings: settings constructed for the next category
    categories,  \* SpecSettings: categories constructed for the collection
    settings,    \* SpecSettings: the SettingsMetadata collection
    op,          \* name of the operation called last
    arg,         \* its argument
    ret,         \* its return value (or the message of the error thrown)
    thrown,      \* whether it threw
    \* ---- install( editor ) ----
    installed,          \* whether install( editor ) has been called
    menuItems,          \* the menu items of editor.ui.registry
    initialized,        \* whether the editor's 'init' event has fired
    listeners,          \* number of keypress listeners of the document body
    dollarSignShortcut, \* appSettings.get( 'dollar sign shortcut' )
    event,              \* the keypress event dispatched last, if any
    atoms,              \* the atoms made by insertExpositoryMath, in order
    insertCalls         \* what insertExpositoryMath called in the last step

editVars == <<mode, latexMeta, body, pc, inputValue, mathValue, okEnabled,
              userHitOK, result, calls>>
metaVars == <<this, contents, categories, settings>>
callVars == <<op, arg, ret, thrown>>
installVars == <<installed, menuItems, initialized, listeners,
                 dollarSignShortcut, event, atoms, insertCalls>>
vars     == <<editVars, metaVars, callVars, installVars>>

-----------------------------------------------------------------------------
(* Bounds of the model.                                                    *)

\* longest LaTeX string a user types or an atom holds
MaxLen == 2
\* longest option list of a categorical setting
MaxOptions == 2
\* most settings (and notes) in one collection, over all its categories
MaxSettings == 3
\* most categories in one collection
MaxCategories == 2
\* most atoms inserted by the menu item and the '$' key
MaxAtoms == 2

-----------------------------------------------------------------------------
(* Strings of the edit dialog: sequences of characters, so that trim() is  *)
(* computed.                                                               *)

Chars == {" ", "x"}

RECURSIVE StringsOfLen(_)
StringsOfLen(n) ==
    IF n = 0 THEN {<<>>}
    ELSE {Append(s, c) : s \in StringsOfLen(n - 1), c \in Chars}

Strings == UNION {StringsOfLen(n) : n \in 0..MaxLen}

IsWhiteSpace(c) == c = " "

RECURSIVE TrimStart(_)
TrimStart(s) ==
    IF s # <<>> /\ IsWhiteSpace(Head(s)) THEN TrimStart(Tail(s)) ELSE s

RECURSIVE TrimEnd(_)
TrimEnd(s) ==
    IF s # <<>> /\ IsWhiteSpace(s[Len(s)])
    THEN TrimEnd(SubSeq(s, 1, Len(s) - 1)) ELSE s

\* String.prototype.trim
Trim(s) == TrimEnd(TrimStart(s))

\* represent( latex, 'latex' ): the HTML typesetting the given LaTeX
represent(latex) == [html |-> latex]

Modes == {"Beginner", "Intermediate", "Advanced"}

-----------------------------------------------------------------------------
(* ExpositoryMath.edit()                                                   *)

\* dialog.get( 'latex' ): the current value of the dialog's 'latex' item,
\* which is the value of its text input element
dialogGet(input) == input

\* const empty = () => dialog.get( 'latex' ).trim() == ''
empty(input) == Trim(dialogGet(input)) = <<>>

\* The variant of onChange that forgets the 'preview' branch.
onChangeLatexOnly(component, input, math) ==
    [input |-> input,
     math  |-> IF component = "latex" THEN dialogGet(input) ELSE math,
     ok    |-> ~empty(input)]

\* dialog.onChange = ( _, component ) => ...: called after the user changed
\* the widget named component.name; input and math are the widgets' values
\* at that time.  The result holds the values when the callback returns.
onChange(component, input, math) ==
    LET \* mathLivePreview.setValue( dialog.get( 'latex' ) )
        math1  == IF component = "latex" THEN dialogGet(input) ELSE math
        \* dialog.querySelector( 'input[type="text"]' ).value =
        \*     mathLivePreview.mathLiveEditor.value
        input1 == IF component = "preview" THEN math1 ELSE input
    IN  [input |-> input1,
         math  |-> math1,
         \* dialog.dialog.setEnabled( 'OK', !empty() )
         ok    |-> ~empty(input1)]

\* update(): this.fillChild( 'body', represent( latex, 'latex' ) )
update(latex) == represent(latex)

\* The state of an atom and of the promise of its edit() before the call.
NoEdit ==
    /\ pc = "idle"
    /\ inputValue = <<>>
    /\ mathValue = <<>>
    /\ okEnabled = FALSE
    /\ userHitOK = FALSE
    /\ result = [resolved |-> FALSE]
    /\ calls = <<>>

\* edit(), up to its return: the dialog is built from the atom and shown.
Edit ==
    /\ pc = "idle"
    /\ pc' = "open"
    \* dialog.setInitialData( { latex } )
    /\ inputValue' = latexMeta
    \* mathLivePreview.finishSetup: mathLivePreview.setValue( latex )
    /\ mathValue' = latexMeta
    \* dialog.dialog.setEnabled( 'OK', !empty() )
    /\ okEnabled' = ~empty(latexMeta)
    /\ UNCHANGED <<mode, latexMeta, body, userHitOK, result, calls>>
    /\ UNCHANGED <<metaVars, callVars, installVars>>

\* The user changes the text of the LaTeX input to s (the input is hidden in
\* beginner mode), and the dialog calls onChange for the 'latex' item.
UserEditsLatex(s) ==
    /\ pc = "open"
    /\ mode # "Beginner"
    /\ s # inputValue
    /\ LET after == onChange("latex", s, mathValue)
       IN  /\ inputValue' = after.input
           /\ mathValue' = after.math
           /\ okEnabled' = after.ok
    /\ UNCHANGED <<mode, latexMeta, body, pc, userHitOK, result, calls>>
    /\ UNCHANGED <<metaVars, callVars, installVars>>

\* The user changes the content of the MathLive editor to s (the editor is
\* read-only in advanced mode), and the dialog calls onChange for the
\* 'preview' item.
UserEditsMath(s) ==
    /\ pc = "open"
    /\ mode # "Advanced"
    /\ s # mathValue
    /\ LET after == onChange("preview", inputValue, s)
       IN  /\ inputValue' = after.input
           /\ mathValue' = after.math
           /\ okEnabled' = after.ok
    /\ UNCHANGED <<mode, latexMeta, body, pc, userHitOK, result, calls>>
    /\ UNCHANGED <<metaVars, callVars, installVars>>

\* The variant of Close that saves whatever the dialog holds on OK.
CloseNoEmptyCheck(hitOK) ==
    /\ pc = "open"
    /\ pc' = "done"
    /\ userHitOK' = hitOK
    /\ IF ~hitOK
       THEN /\ result' = [resolved |-> TRUE, value |-> FALSE]
            /\ UNCHANGED <<latexMeta, body, calls>>
       ELSE /\ latexMeta' = dialogGet(inputValue)
            /\ body' = update(latexMeta')
            /\ calls' = <<"setMetadata", "update">>
            /\ result' = [resolved |-> TRUE, value |-> TRUE]
    /\ UNCHANGED <<mode, inputValue, mathValue, okEnabled>>
    /\ UNCHANGED <<metaVars, callVars, installVars>>

\* The dialog closes: dialog.show() resolves to hitOK and the callback given
\* to then() runs.  The OK button is not the only way to accept (the code
\* itself stops the Enter key in the text input, and tests empty() again
\* here), so OK is not assumed to imply okEnabled.
Close(hitOK) ==
    /\ pc = "open"
    /\ pc' = "done"
    /\ userHitOK' = hitOK
    /\ IF ~hitOK \/ empty(inputValue)
       THEN \* return false
            /\ result' = [resolved |-> TRUE, value |-> FALSE]
            /\ UNCHANGED <<latexMeta, body, calls>>
       ELSE \* this.setMetadata( 'latex', dialog.get( 'latex' ) )
            /\ latexMeta' = dialogGet(inputValue)
            \* this.update()
            /\ body' = update(latexMeta')
            /\ calls' = <<"setMetadata", "update">>
            \* return true
            /\ result' = [resolved |-> TRUE, value |-> TRUE]
    /\ UNCHANGED <<mode, inputValue, mathValue, okEnabled>>
    /\ UNCHANGED <<metaVars, callVars, installVars>>

-----------------------------------------------------------------------------
(* JavaScript values.  A primitive value is a record of its type t and its *)
(* text s, the text being what a template literal `${v}` yields for it.    *)
(* An instance of a class is a record of its class and of its own          *)
(* properties; a plain object (a literal, a copy without prototype) is the *)
(* record of its properties.                                               *)

JSUndefined == [t |-> "undefined", s |-> "undefined"]
JSNull      == [t |-> "null", s |-> "null"]
JSBool(b)   == [t |-> "boolean", s |-> IF b THEN "true" ELSE "false"]
JSStr(s)    == [t |-> "string", s |-> s]
JSNum(s)    == [t |-> "number", s |-> s]

\* `${v}`
TemplateString(v) == JSStr(v.s)

IsInstance(v) == "class" \in DOMAIN v

\* ToBoolean, as applied by if ( v ), !!v and v ? a : b
Truthy(v) ==
    IF IsInstance(v) THEN TRUE
    ELSE CASE v.t = "string"  -> v.s # ""
           [] v.t = "boolean" -> v.s = "true"
           [] v.t = "number"  -> v.s \notin {"0", "NaN"}
           [] OTHER           -> FALSE

\* a == b, for a and b each a string, undefined or null
LooseEquals(a, b) ==
    IF a.t = "string" /\ b.t = "string" THEN a.s = b.s
    ELSE a.t \in {"undefined", "null"} /\ b.t \in {"undefined", "null"}

\* delete object[key]
Delete(object, key) == [k \in DOMAIN object \ {key} |-> object[k]]

\* No object: the value of `this` and `settings` before any constructor ran.
None == [class |-> "none"]

\* What a call yields: a returned value, or an error thrown.
Return(v) == [threw |-> FALSE, value |-> v]
Throw(e)  == [threw |-> TRUE, value |-> JSStr(e)]

-----------------------------------------------------------------------------
(* The metadata of one setting.                                            *)

\* SettingMetadata.constructor: the own properties it sets
SettingMetadata(name, label, defaultValue) ==
    [name |-> name, label |-> label, defaultValue |-> defaultValue]

BoolSettingMetadata(name, label, defaultValue) ==
    [class |-> "BoolSettingMetadata",
     own   |-> SettingMetadata(name, label, defaultValue)
                   @@ [type |-> JSStr("checkbox")]]

ColorSettingMetadata(name, label, defaultValue) ==
    [class |-> "ColorSettingMetadata",
     own   |-> SettingMetadata(name, label, defaultValue)
                   @@ [type |-> JSStr("colorinput")]]

TextSettingMetadata(name, label, defaultValue) ==
    [class |-> "TextSettingMetadata",
     own   |-> SettingMetadata(name, label, TemplateString(defaultValue))
                   @@ [type |-> JSStr("input")]]

CategorySettingMetadata(name, label, options, defaultValue) ==
    [class |-> "CategorySettingMetadata",
     own   |-> SettingMetadata(name, label, TemplateString(defaultValue))
                   @@ [type  |-> JSStr("selectbox"),
                       items |-> [i \in 1..Len(options) |->
                                    [value |-> TemplateString(options[i]),
                                     text  |-> TemplateString(options[i])]]]]

\* NoteMetadata.styleToIcon
styleToIcon ==
    [info |-> "info", warn |-> "warning", error |-> "notice",
     success |-> "selected"]

\* The variant of NoteMetadata that accepts any style.
NoteMetadataAnyStyle(content, style) ==
    IF Truthy(style)
    THEN Return([class |-> "NoteMetadata",
                 own   |-> SettingMetadata(JSUndefined, JSUndefined, JSUndefined)
                             @@ [type  |-> JSStr("alertbanner"),
                                 level |-> style,
                                 icon  |-> IF style.s \in DOMAIN styleToIcon
                                           THEN JSStr(styleToIcon[style.s])
                                           ELSE JSUndefined,
                                 text  |-> content]])
    ELSE Return([class |-> "NoteMetadata",
                 own   |-> SettingMetadata(JSUndefined, JSUndefined, JSUndefined)
                             @@ [type |-> JSStr("htmlpanel"),
                                 html |-> content]])

\* NoteMetadata.constructor; style is a string or undefined
NoteMetadata(content, style) ==
    IF Truthy(style)
    THEN \* !NoteMetadata.styleToIcon.hasOwnProperty( style )
         IF style.s \notin DOMAIN styleToIcon
         THEN Throw("Invalid note style")
         ELSE Return([class |-> "NoteMetadata",
                      own   |-> SettingMetadata(JSUndefined, JSUndefined,
                                                JSUndefined)
                                  @@ [type  |-> JSStr("alertbanner"),
                                      level |-> style,
                                      icon  |-> JSStr(styleToIcon[style.s]),
                                      text  |-> content]])
    ELSE Return([class |-> "NoteMetadata",
                 own   |-> SettingMetadata(JSUndefined, JSUndefined, JSUndefined)
                             @@ [type |-> JSStr("htmlpanel"),
                                 html |-> content]])

\* copyWithoutPrototype( object ): a new plain object with the own
\* properties of the given one
copyWithoutPrototype(object) == object.own

\* The variant of SettingMetadata_control that deletes defaultValue from the
\* setting itself instead of from a copy.
SettingMetadata_controlInPlace(self) ==
    [result |-> Delete(self.own, "defaultValue"),
     self   |-> [self EXCEPT !.own = Delete(self.own, "defaultValue")]]

\* SettingMetadata.control(): what it returns, and the setting after the call
SettingMetadata_control(self) ==
    LET copy == copyWithoutPrototype(self)
    IN  \* delete result.defaultValue
        [result |-> Delete(copy, "defaultValue"),
         self   |-> self]

\* SettingMetadata.convert( data )
SettingMetadata_convert(self, data) == Return(data)

\* The variant of BoolSettingMetadata_convert that takes every truthy value
\* for true.
BoolSettingMetadata_convertTruthy(self, data) == Return(JSBool(Truthy(data)))

\* BoolSettingMetadata.convert( data )
BoolSettingMetadata_convert(self, data) ==
    Return(JSBool(data = JSBool(TRUE) \/ data = JSStr("true")))

\* The variant of CategorySettingMetadata_convert that returns the data as
\* given when it is on the list, not its string form.
CategorySettingMetadata_convertNoString(self, data) ==
    LET items == self.own.items
    IN  IF \E i \in DOMAIN items : items[i].value = TemplateString(data)
        THEN Return(data)
        ELSE IF Len(items) = 0
             THEN Throw("TypeError")
             ELSE Return(items[1].value)

\* CategorySettingMetadata.convert( data )
CategorySettingMetadata_convert(self, data) ==
    LET items == self.own.items
    IN  IF \E i \in DOMAIN items : items[i].value = TemplateString(data)
        THEN Return(TemplateString(data))
        ELSE \* this.items[0].value: reading a property of undefined throws
             IF Len(items) = 0
             THEN Throw("TypeError")
             ELSE Return(items[1].value)

\* self.convert( data ), by the class of self
convert(self, data) ==
    CASE self.class = "BoolSettingMetadata" ->
             BoolSettingMetadata_convert(self, data)
      [] self.class = "CategorySettingMetadata" ->
             CategorySettingMetadata_convert(self, data)
      [] OTHER -> SettingMetadata_convert(self, data)

-----------------------------------------------------------------------------
(* Categories of settings, and the collection of the categories.           *)

\* SettingsCategoryMetadata.constructor( name, ...contents )
SettingsCategoryMetadata(name, cs) ==
    [class |-> "SettingsCategoryMetadata",
     own   |-> [SettingMetadata(JSUndefined, JSUndefined, JSUndefined)
                    EXCEPT !.name = name]
                   @@ [contents |-> cs]]

\* SettingsMetadata.constructor( ...categories )
SettingsMetadata(cats) ==
    [class |-> "SettingsMetadata",
     own   |-> SettingMetadata(JSUndefined, JSUndefined, JSUndefined)
                   @@ [categories |-> cats]]

\* SettingsCategoryMetadata.control(): what it returns, and the category
\* after the call
SettingsCategoryMetadata_control(self) ==
    LET cs   == self.own.contents
        each == [i \in DOMAIN cs |-> SettingMetadata_control(cs[i])]
    IN  [result |-> [name  |-> self.own.name,
                     title |-> self.own.name,
                     items |-> [i \in DOMAIN cs |-> each[i].result]],
         self   |-> [self EXCEPT
                        !.own.contents = [i \in DOMAIN cs |-> each[i].self]]]

\* SettingsMetadata.control(): what it returns, and the collection after
\* the call
SettingsMetadata_control(self) ==
    LET cats == self.own.categories
        each == [i \in DOMAIN cats |-> SettingsCategoryMetadata_control(cats[i])]
    IN  [result |-> [type |-> JSStr("tabpanel"),
                     tabs |-> [i \in DOMAIN cats |-> each[i].result]],
         self   |-> [self EXCEPT
                        !.own.categories = [i \in DOMAIN cats |-> each[i].self]]]

\* The variant of SettingsCategoryMetadata_keys that keeps the names of
\* nameless entries.
SettingsCategoryMetadata_keysUnfiltered(self) ==
    [i \in DOMAIN self.own.contents |-> self.own.contents[i].own.name]

\* SettingsCategoryMetadata.keys()
SettingsCategoryMetadata_keys(self) ==
    LET cs    == self.own.contents
        names == [i \in DOMAIN cs |-> cs[i].own.name]
    IN  SelectSeq(names, Truthy)

RECURSIVE Concat(_)
\* seqs.reduce( ( a, b ) => [ ...a, ...b ], [ ] )
Concat(seqs) ==
    IF seqs = <<>> THEN <<>>
    ELSE Concat(SubSeq(seqs, 1, Len(seqs) - 1)) \o seqs[Len(seqs)]

\* The variant of SettingsMetadata_keys whose reduce() keeps the keys of the
\* last category alone.
SettingsMetadata_keysOfLast(self) ==
    LET cats == self.own.categories
    IN  IF cats = <<>> THEN <<>>
        ELSE SettingsCategoryMetadata_keys(cats[Len(cats)])

\* SettingsMetadata.keys()
SettingsMetadata_keys(self) ==
    LET cats == self.own.categories
    IN  Concat([i \in DOMAIN cats |-> SettingsCategoryMetadata_keys(cats[i])])

\* { }
EmptyObject == <<>>

\* object[key] = value
Assign(object, key, value) ==
    [k \in DOMAIN object \cup {key} |-> IF k = key THEN value ELSE object[k]]

\* The variant of Spread in which the properties of a win: { ...b, ...a }.
SpreadKeepFirst(a, b) ==
    [k \in DOMAIN a \cup DOMAIN b |-> IF k \in DOMAIN a THEN a[k] ELSE b[k]]

\* { ...a, ...b }
Spread(a, b) ==
    [k \in DOMAIN a \cup DOMAIN b |-> IF k \in DOMAIN b THEN b[k] ELSE a[k]]

RECURSIVE DefaultsOf(_)
\* the forEach loop of SettingsCategoryMetadata.defaultSettings() over cs
DefaultsOf(cs) ==
    IF cs = <<>> THEN EmptyObject
    ELSE LET before   == DefaultsOf(SubSeq(cs, 1, Len(cs) - 1))
             metadata == cs[Len(cs)]
         IN  IF Truthy(metadata.own.name)
             THEN Assign(before, metadata.own.name.s,
                         metadata.own.defaultValue)
             ELSE before

\* SettingsCategoryMetadata.defaultSettings()
SettingsCategoryMetadata_defaultSettings(self) == DefaultsOf(self.own.contents)

RECURSIVE SpreadAll(_)
\* objects.reduce( ( a, b ) => { return { ...a, ...b } }, { } )
SpreadAll(objects) ==
    IF objects = <<>> THEN EmptyObject
    ELSE Spread(SpreadAll(SubSeq(objects, 1, Len(objects) - 1)),
                objects[Len(objects)])

\* SettingsMetadata.defaultSettings()
SettingsMetadata_defaultSettings(self) ==
    LET cats == self.own.categories
    IN  SpreadAll([i \in DOMAIN cats |->
                     SettingsCategoryMetadata_defaultSettings(cats[i])])

\* SettingsCategoryMetadata.metadataFor( key )
SettingsCategoryMetadata_metadataFor(self, key) ==
    LET cs      == self.own.contents
        matches == {i \in DOMAIN cs : LooseEquals(cs[i].own.name, key)}
    IN  IF matches = {} THEN JSUndefined
        ELSE cs[CHOOSE i \in matches : \A j \in matches : i <= j]

RECURSIVE MetadataForFrom(_, _, _)
\* the loop of SettingsMetadata.metadataFor( key ), from index i on
MetadataForFrom(cats, i, key) ==
    IF i > Len(cats) THEN JSUndefined
    ELSE LET found == SettingsCategoryMetadata_metadataFor(cats[i], key)
         IN  IF Truthy(found) THEN found
             ELSE MetadataForFrom(cats, i + 1, key)

\* The variant of SettingsMetadata_metadataFor that returns what the first
\* category has, found or not.
SettingsMetadata_metadataForFirstCategory(self, key) ==
    IF self.own.categories = <<>> THEN JSUndefined
    ELSE SettingsCategoryMetadata_metadataFor(self.own.categories[1], key)

\* SettingsMetadata.metadataFor( key )
SettingsMetadata_metadataFor(self, key) ==
    MetadataForFrom(self.own.categories, 1, key)

-----------------------------------------------------------------------------
(* SpecSetting: the metadata of one setting.                               *)

Names == {JSStr("a"), JSStr("b")}
Labels == {JSStr("Label")}
BoolDefaults == {JSBool(TRUE), JSBool(FALSE)}
ColorDefaults == {JSStr("#fff")}
TextDefaults == {JSStr("x"), JSNum("1")}
OptionValues == {JSStr("x"), JSStr("true"), JSNum("1")}
CategoryDefaults == {JSStr("x")}
NoteContents == {JSStr("<p>note</p>")}
\* a note's style: omitted, empty, one of the four styles, or another string
Styles ==
    {JSUndefined, JSStr(""), JSStr("info"), JSStr("warn"), JSStr("error"),
     JSStr("success"), JSStr("danger"), JSStr("toString")}
\* the values given to convert()
DataValues ==
    {JSBool(TRUE), JSBool(FALSE), JSStr("true"), JSStr("True"), JSStr("false"),
     JSStr("x"), JSStr("1"), JSNum("1"), JSNull, JSUndefined}

RECURSIVE SeqsOfLen(_, _)
SeqsOfLen(S, n) ==
    IF n = 0 THEN {<<>>}
    ELSE {Append(q, x) : q \in SeqsOfLen(S, n - 1), x \in S}

OptionLists == UNION {SeqsOfLen(OptionValues, n) : n \in 0..MaxOptions}

\* No setting constructed, no category, no collection.
NoMeta ==
    /\ this = None
    /\ contents = <<>>
    /\ categories = <<>>
    /\ settings = None

\* A keypress event that nothing has handled.
KeypressEvent(key) ==
    [key |-> key, defaultPrevented |-> FALSE, propagationStopped |-> FALSE]

\* No keypress event: none was dispatched, or something else happened since.
NoEvent == KeypressEvent("none")

\* An editor in which install() was not called.
NoInstall ==
    /\ installed = FALSE
    /\ menuItems = {}
    /\ initialized = FALSE
    /\ listeners = 0
    /\ dollarSignShortcut = JSBool(FALSE)
    /\ event = NoEvent
    /\ atoms = <<>>
    /\ insertCalls = <<>>

\* No operation called.
NoCall ==
    /\ op = "none"
    /\ arg = JSUndefined
    /\ ret = JSUndefined
    /\ thrown = FALSE

\* An atom that is not being edited.
NoAtom ==
    /\ mode = "Intermediate"
    /\ latexMeta = <<>>
    /\ body = update(<<>>)
    /\ NoEdit

\* new cls( a ) ended with outcome: the object becomes `this`, or the error
\* is thrown and no object is made
Construct(cls, a, outcome) ==
    /\ op' = cls
    /\ arg' = a
    /\ thrown' = outcome.threw
    /\ IF outcome.threw
       THEN ret' = outcome.value /\ UNCHANGED this
       ELSE ret' = JSUndefined /\ this' = outcome.value

NewBoolSettingMetadata(name, label, defaultValue) ==
    /\ Construct("BoolSettingMetadata",
                 [name |-> name, label |-> label, defaultValue |-> defaultValue],
                 Return(BoolSettingMetadata(name, label, defaultValue)))
    /\ UNCHANGED <<editVars, installVars, contents, categories, settings>>

NewColorSettingMetadata(name, label, defaultValue) ==
    /\ Construct("ColorSettingMetadata",
                 [name |-> name, label |-> label, defaultValue |-> defaultValue],
                 Return(ColorSettingMetadata(name, label, defaultValue)))
    /\ UNCHANGED <<editVars, installVars, contents, categories, settings>>

NewTextSettingMetadata(name, label, defaultValue) ==
    /\ Construct("TextSettingMetadata",
                 [name |-> name, label |-> label, defaultValue |-> defaultValue],
                 Return(TextSettingMetadata(name, label, defaultValue)))
    /\ UNCHANGED <<editVars, installVars, contents, categories, settings>>

NewCategorySettingMetadata(name, label, options, defaultValue) ==
    /\ Construct("CategorySettingMetadata",
                 [name |-> name, label |-> label, options |-> options,
                  defaultValue |-> defaultValue],
                 Return(CategorySettingMetadata(name, label, options,
                                                defaultValue)))
    /\ UNCHANGED <<editVars, installVars, contents, categories, settings>>

NewNoteMetadata(content, style) ==
    /\ Construct("NoteMetadata", [content |-> content, style |-> style],
                 NoteMetadata(content, style))
    /\ UNCHANGED <<editVars, installVars, contents, categories, settings>>

\* this.convert( data )
CallConvert(data) ==
    /\ this # None
    /\ LET outcome == convert(this, data)
       IN  /\ op' = "convert"
           /\ arg' = data
           /\ ret' = outcome.value
           /\ thrown' = outcome.threw
    /\ UNCHANGED <<editVars, installVars, metaVars>>

\* this.control()
CallControl ==
    /\ this # None
    /\ LET outcome == SettingMetadata_control(this)
       IN  /\ op' = "control"
           /\ arg' = JSUndefined
           /\ ret' = outcome.result
           /\ thrown' = FALSE
           /\ this' = outcome.self
    /\ UNCHANGED <<editVars, installVars, contents, categories, settings>>

InitSetting == NoAtom /\ NoMeta /\ NoCall /\ NoInstall

NextSetting ==
    \/ \E name \in Names, label \in Labels, defaultValue \in BoolDefaults :
           NewBoolSettingMetadata(name, label, defaultValue)
    \/ \E name \in Names, label \in Labels, defaultValue \in ColorDefaults :
           NewColorSettingMetadata(name, label, defaultValue)
    \/ \E name \in Names, label \in Labels, defaultValue \in TextDefaults :
           NewTextSettingMetadata(name, label, defaultValue)
    \/ \E name \in Names, label \in Labels, options \in OptionLists,
          defaultValue \in CategoryDefaults :
           NewCategorySettingMetadata(name, label, options, defaultValue)
    \/ \E content \in NoteContents, style \in Styles :
           NewNoteMetadata(content, style)
    \/ \E data \in DataValues : CallConvert(data)
    \/ CallControl

SpecSetting == InitSetting /\ [][NextSetting]_vars

-----------------------------------------------------------------------------
(* SpecSettings: a collection of categories of settings.                   *)

\* the settings and notes that categories are made of: two settings named
\* 'a' with different defaults, one named 'b', one whose name is the empty
\* string, and a note
SettingPool ==
    {BoolSettingMetadata(JSStr("a"), JSStr("Label"), JSBool(TRUE)),
     TextSettingMetadata(JSStr("a"), JSStr("Label"), JSNum("1")),
     CategorySettingMetadata(JSStr("b"), JSStr("Label"),
                             <<JSStr("x"), JSNum("1")>>, JSStr("x")),
     ColorSettingMetadata(JSStr(""), JSStr("Label"), JSStr("#fff")),
     NoteMetadata(JSStr("<p>note</p>"), JSUndefined).value}

CategoryNames == {JSStr("General")}

\* the keys given to metadataFor()
Keys == {JSStr("a"), JSStr("b"), JSStr(""), JSStr("zz")}

RECURSIVE SumOfLens(_)
SumOfLens(cats) ==
    IF cats = <<>> THEN 0
    ELSE Len(Head(cats).own.contents) + SumOfLens(Tail(cats))

\* A setting or a note is constructed, to be given to the constructor of the
\* next category.
NewSetting(m) ==
    /\ settings = None
    /\ Len(contents) + SumOfLens(categories) < MaxSettings
    /\ contents' = Append(contents, m)
    /\ op' = m.class
    /\ UNCHANGED <<editVars, installVars, this, categories, settings, arg, ret, thrown>>

\* new SettingsCategoryMetadata( name, ...contents )
NewSettingsCategoryMetadata(name) ==
    /\ settings = None
    /\ Len(categories) < MaxCategories
    /\ categories' = Append(categories, SettingsCategoryMetadata(name, contents))
    /\ contents' = <<>>
    /\ op' = "SettingsCategoryMetadata"
    /\ UNCHANGED <<editVars, installVars, this, settings, arg, ret, thrown>>

\* new SettingsMetadata( ...categories )
NewSettingsMetadata ==
    /\ settings = None
    /\ settings' = SettingsMetadata(categories)
    /\ contents' = <<>>
    /\ categories' = <<>>
    /\ op' = "SettingsMetadata"
    /\ UNCHANGED <<editVars, installVars, this, arg, ret, thrown>>

\* settings.keys()
CallKeys ==
    /\ settings # None
    /\ op' = "keys"
    /\ arg' = JSUndefined
    /\ ret' = SettingsMetadata_keys(settings)
    /\ UNCHANGED <<editVars, installVars, metaVars, thrown>>

\* settings.defaultSettings()
CallDefaultSettings ==
    /\ settings # None
    /\ op' = "defaultSettings"
    /\ arg' = JSUndefined
    /\ ret' = SettingsMetadata_defaultSettings(settings)
    /\ UNCHANGED <<editVars, installVars, metaVars, thrown>>

\* settings.metadataFor( key )
CallMetadataFor(key) ==
    /\ settings # None
    /\ op' = "metadataFor"
    /\ arg' = key
    /\ ret' = SettingsMetadata_metadataFor(settings, key)
    /\ UNCHANGED <<editVars, installVars, metaVars, thrown>>

\* settings.control()
CallSettingsControl ==
    /\ settings # None
    /\ LET outcome == SettingsMetadata_control(settings)
       IN  /\ op' = "control"
           /\ arg' = JSUndefined
           /\ ret' = outcome.result
           /\ settings' = outcome.self
    /\ UNCHANGED <<editVars, installVars, this, contents, categories, thrown>>

InitSettings == NoAtom /\ NoMeta /\ NoCall /\ NoInstall

NextSettings ==
    \/ \E m \in SettingPool : NewSetting(m)
    \/ \E name \in CategoryNames : NewSettingsCategoryMetadata(name)
    \/ NewSettingsMetadata
    \/ CallKeys
    \/ CallDefaultSettings
    \/ \E key \in Keys : CallMetadataFor(key)
    \/ CallSettingsControl

SpecSettings == InitSettings /\ [][NextSettings]_vars

-----------------------------------------------------------------------------
(* SpecInstall: install( editor ), the editor's 'init' event, the keys     *)
(* pressed in the document body, the menu item and the setting             *)
(* 'dollar sign shortcut'.                                                 *)

\* the keys pressed in the document body
KeypressKeys == {"$", "a", "Enter"}

\* the values appSettings holds for 'dollar sign shortcut'
ShortcutValues ==
    {JSBool(TRUE), JSBool(FALSE), JSStr("false"), JSStr(""), JSUndefined}

\* what insertExpositoryMath calls, in order
InsertionCalls == <<"newInline", "update", "editThenInsert">>

\* The atom insertExpositoryMath makes: Atom.newInline( editor, '',
\* { type : 'expositorymath', latex : '' } ), an inline atom with the
\* content '' and the metadata given.
insertExpositoryMath ==
    [inline  |-> TRUE,
     content |-> <<>>,
     type    |-> "expositorymath",
     latex   |-> <<>>]

\* A keypress listener that does not ask the setting.
keypressListenerAlways(ev, shortcut) ==
    IF ev.key = "$"
    THEN [event  |-> [ev EXCEPT !.defaultPrevented = TRUE,
                                !.propagationStopped = TRUE],
          insert |-> TRUE]
    ELSE [event |-> ev, insert |-> FALSE]

\* The keypress listener of the document body, given the event and the value
\* of appSettings.get( 'dollar sign shortcut' ): the event as it leaves the
\* listener, and whether insertExpositoryMath was called.
keypressListener(ev, shortcut) ==
    IF ev.key = "$" /\ Truthy(shortcut)
    THEN [event  |-> [ev EXCEPT !.defaultPrevented = TRUE,
                                !.propagationStopped = TRUE],
          insert |-> TRUE]
    ELSE [event |-> ev, insert |-> FALSE]

\* install( editor ): the menu item is registered, and the callback that
\* adds the keypress listener waits for the 'init' event.
Install ==
    /\ ~installed
    /\ installed' = TRUE
    /\ menuItems' = menuItems \cup {"expositorymath"}
    /\ event' = NoEvent
    /\ insertCalls' = <<>>
    /\ UNCHANGED <<initialized, listeners, dollarSignShortcut, atoms>>
    /\ UNCHANGED <<editVars, metaVars, callVars>>

\* The editor fires 'init', once, after the application has set it up: the
\* callback of install() adds the keypress listener to the document body.
FireInit ==
    /\ installed
    /\ ~initialized
    /\ initialized' = TRUE
    /\ listeners' = listeners + 1
    /\ event' = NoEvent
    /\ insertCalls' = <<>>
    /\ UNCHANGED <<installed, menuItems, dollarSignShortcut, atoms>>
    /\ UNCHANGED <<editVars, metaVars, callVars>>

\* A key is pressed in the document body: the listener, if there is one,
\* handles the event.
Keypress(key) ==
    /\ Len(atoms) < MaxAtoms
    /\ LET ev  == KeypressEvent(key)
           out == IF listeners = 0
                  THEN [event |-> ev, insert |-> FALSE]
                  ELSE keypressListener(ev, dollarSignShortcut)
       IN  /\ event' = out.event
           /\ atoms' = IF out.insert
                       THEN Append(atoms, insertExpositoryMath)
                       ELSE atoms
           /\ insertCalls' = IF out.insert THEN InsertionCalls ELSE <<>>
    /\ UNCHANGED <<installed, menuItems, initialized, listeners,
                   dollarSignShortcut>>
    /\ UNCHANGED <<editVars, metaVars, callVars>>

\* The user chooses the menu item: its onAction is insertExpositoryMath.
MenuAction ==
    /\ "expositorymath" \in menuItems
    /\ Len(atoms) < MaxAtoms
    /\ atoms' = Append(atoms, insertExpositoryMath)
    /\ insertCalls' = InsertionCalls
    /\ event' = NoEvent
    /\ UNCHANGED <<installed, menuItems, initialized, listeners,
                   dollarSignShortcut>>
    /\ UNCHANGED <<editVars, metaVars, callVars>>

\* The user changes the setting 'dollar sign shortcut'.
ChangeSetting(v) ==
    /\ v # dollarSignShortcut
    /\ dollarSignShortcut' = v
    /\ event' = NoEvent
    /\ insertCalls' = <<>>
    /\ UNCHANGED <<installed, menuItems, initialized, listeners, atoms>>
    /\ UNCHANGED <<editVars, metaVars, callVars>>

InitInstall ==
    /\ NoAtom
    /\ NoMeta
    /\ NoCall
    /\ installed = FALSE
    /\ menuItems = {}
    /\ initialized = FALSE
    /\ listeners = 0
    /\ dollarSignShortcut \in ShortcutValues
    /\ event = NoEvent
    /\ atoms = <<>>
    /\ insertCalls = <<>>

NextInstall ==
    \/ Install
    \/ FireInit
    \/ \E key \in KeypressKeys : Keypress(key)
    \/ MenuAction
    \/ \E v \in ShortcutValues : ChangeSetting(v)

SpecInstall == InitInstall /\ [][NextInstall]_vars

-----------------------------------------------------------------------------
(* SpecEdit: one call of ExpositoryMath.edit().                            *)

InitEdit ==
    /\ mode \in Modes
    /\ latexMeta \in Strings
    \* the body was filled by update() when the atom was made or last edited
    /\ body = update(latexMeta)
    /\ NoEdit
    /\ NoMeta
    /\ NoCall
    /\ NoInstall

NextEdit ==
    \/ Edit
    \/ \E s \in Strings : UserEditsLatex(s)
    \/ \E s \in Strings : UserEditsMath(s)
    \/ \E hitOK \in BOOLEAN : Close(hitOK)

SpecEdit == InitEdit /\ [][NextEdit]_vars

-----------------------------------------------------------------------------
(* Properties of SpecEdit.                                                 *)

C2_EditResolves ==
    [][(pc = "open" /\ pc' = "done") =>
          IF userHitOK' /\ Trim(dialogGet(inputValue)) # <<>>
          THEN /\ result' = [resolved |-> TRUE, value |-> TRUE]
               /\ latexMeta' = dialogGet(inputValue)
               /\ calls' = <<"setMetadata", "update">>
               /\ body' = represent(latexMeta')
          ELSE /\ result' = [resolved |-> TRUE, value |-> FALSE]
               /\ latexMeta' = latexMeta
               /\ body' = body
               /\ calls' = <<>>]_vars

\* C2 witness: the user hit OK on a latex with a trailing space, which
\* was saved as it is, and edit() resolved to true.
C2_Witness ==
    /\ pc = "done"
    /\ userHitOK
    /\ result = [resolved |-> TRUE, value |-> TRUE]
    /\ inputValue = <<"x", " ">>
    /\ latexMeta = inputValue
    /\ body = represent(<<"x", " ">>)
    /\ calls = <<"setMetadata", "update">>

-----------------------------------------------------------------------------
(* Properties of SpecSetting.                                              *)

FourStyles == {JSStr("info"), JSStr("warn"), JSStr("error"), JSStr("success")}

IconOf(style) ==
    CASE style = JSStr("info")    -> JSStr("info")
      [] style = JSStr("warn")    -> JSStr("warning")
      [] style = JSStr("error")   -> JSStr("notice")
      [] style = JSStr("success") -> JSStr("selected")

\* What new NoteMetadata( content, style ) does, by the style.
NoteConstructed ==
    op = "NoteMetadata" =>
        /\ (Truthy(arg.style) /\ arg.style \notin FourStyles) =>
               thrown /\ ret = JSStr("Invalid note style")
        /\ arg.style \in FourStyles =>
               /\ ~thrown
               /\ this.class = "NoteMetadata"
               /\ this.own.type = JSStr("alertbanner")
               /\ this.own.level = arg.style
               /\ this.own.icon = IconOf(arg.style)
               /\ this.own.text = arg.content
        /\ arg.style = JSUndefined =>
               /\ ~thrown
               /\ this.class = "NoteMetadata"
               /\ this.own.type = JSStr("htmlpanel")
               /\ this.own.html = arg.content

\* convert() was called on a categorical setting that has no options.
ConvertWithoutOptions ==
    /\ op = "convert"
    /\ this.class = "CategorySettingMetadata"
    /\ Len(this.own.items) = 0

OptionValuesOfThis ==
    {this.own.items[i].value : i \in DOMAIN this.own.items}

\* convert() of the categorical setting `this` returned the string form of
\* its argument if that is an option value and the first option value if
\* not, which is an option value and which convert() maps to itself.
ConvertedToOption ==
    /\ ~thrown
    /\ ret = IF TemplateString(arg) \in OptionValuesOfThis
             THEN TemplateString(arg)
             ELSE this.own.items[1].value
    /\ ret \in OptionValuesOfThis
    /\ convert(this, ret) = Return(ret)

C6_BoolConvert ==
    (op = "convert" /\ this.class = "BoolSettingMetadata") =>
        /\ ~thrown
        /\ ret \in {JSBool(TRUE), JSBool(FALSE)}
        /\ ret = JSBool(TRUE) <=> arg \in {JSBool(TRUE), JSStr("true")}
        /\ arg \in {JSStr("True"), JSNum("1"), JSStr("false"), JSNull,
                    JSUndefined} => ret = JSBool(FALSE)

\* C6 witness: convert() of a boolean setting was given 'True' and returned
\* false.
C6_Witness ==
    /\ op = "convert"
    /\ this.class = "BoolSettingMetadata"
    /\ arg = JSStr("True")
    /\ ret = JSBool(FALSE)

-----------------------------------------------------------------------------
(* Properties of SpecSettings.  They speak of the entries (settings and    *)
(* notes) of the collection by their positions: <<i, j>> is the j-th entry *)
(* of the i-th category.                                                   *)

Cats == settings.own.categories

Positions == UNION {{<<i, j>> : j \in DOMAIN Cats[i].own.contents} : i \in DOMAIN Cats}

EntryAt(p) == Cats[p[1]].own.contents[p[2]]

\* p comes before q in the collection
Before(p, q) == p[1] < q[1] \/ (p[1] = q[1] /\ p[2] < q[2])

\* an entry without a name: a note, or a setting named by the empty string
Nameless(m) == m.own.name \in {JSUndefined, JSStr("")}

\* the positions of the entries named n
Named(n) == {p \in Positions : EntryAt(p).own.name = n}

\* the positions of the entries that have a name
AllNamed == {p \in Positions : ~Nameless(EntryAt(p))}

\* the names of the entries that have one
AllNames == {EntryAt(p).own.name : p \in AllNamed}

First(ps) == CHOOSE p \in ps : \A q \in ps : q = p \/ Before(p, q)
Last(ps)  == CHOOSE p \in ps : \A q \in ps : q = p \/ Before(q, p)

\* the same, in the i-th category alone
InCategory(i, ps) == {p \in ps : p[1] = i}

Occurrences(seq, x) == Cardinality({k \in DOMAIN seq : seq[k] = x})

Range(seq) == {seq[k] : k \in DOMAIN seq}

FirstNamed(ps, key) ==
    IF ps \cap Named(key) = {} THEN JSUndefined
    ELSE EntryAt(First(ps \cap Named(key)))

ListsNamesOf(keys, ps) ==
    /\ Len(keys) = Cardinality(ps \cap AllNamed)
    /\ \A p \in ps \cap AllNamed :
           keys[1 + Cardinality({q \in ps \cap AllNamed : Before(q, p)})]
               = EntryAt(p).own.name

\* C8: keys() of a category is the names of its entries in order, without
\* the nameless ones; keys() of a collection is the concatenation of the
\* keys() of its categories in order; metadataFor() is defined on each key.
C8_KeysInOrder ==
    op = "keys" =>
        /\ ListsNamesOf(ret, Positions)
        /\ \A i \in DOMAIN Cats :
               ListsNamesOf(SettingsCategoryMetadata_keys(Cats[i]),
                            InCategory(i, Positions))
        /\ \A k \in DOMAIN ret :
               /\ SettingsMetadata_metadataFor(settings, ret[k]) # JSUndefined
               /\ \E i \in DOMAIN Cats :
                      SettingsCategoryMetadata_metadataFor(Cats[i], ret[k])
                          # JSUndefined

\* C8 witness: keys() returned 'b', 'a' for a category of a note, the
\* setting 'b' and a setting without name, followed by a category of the
\* setting 'a'.
C8_Witness ==
    /\ op = "keys"
    /\ Len(Cats) = 2
    /\ Len(Cats[1].own.contents) = 2
    /\ Len(Cats[2].own.contents) = 1
    /\ EntryAt(<<1, 1>>).class = "NoteMetadata"
    /\ EntryAt(<<1, 2>>).own.name = JSStr("b")
    /\ EntryAt(<<2, 1>>).own.name = JSStr("a")
    /\ ret = <<JSStr("b"), JSStr("a")>>

MapsToLastDefaults(defaults, ps, keys) ==
    /\ DOMAIN defaults = {k.s : k \in Range(keys)}
    /\ DOMAIN defaults = {EntryAt(p).own.name.s : p \in ps \cap AllNamed}
    /\ \A p \in ps \cap AllNamed :
           LET n == EntryAt(p).own.name
           IN  /\ defaults[n.s] = EntryAt(Last(ps \cap Named(n))).own.defaultValue
               /\ Cardinality(ps \cap Named(n)) = 1 =>
                      defaults[n.s] = FirstNamed(ps, n).own.defaultValue

FieldsButDefault(m) ==
    [k \in DOMAIN m.own \ {"defaultValue"} |-> m.own[k]]

\* C10: control() of a collection returns a tab panel with one tab for each
\* category in order, each with the name of the category as name and title
\* and with the controls of its entries in order as items, the control of
\* an entry being its own properties but for defaultValue; and the call
\* leaves the collection as it was, each entry with its defaultValue.
C10_ControlLeavesMetadata ==
    [][op' = "control" =>
          /\ settings' = settings
          /\ \A p \in Positions : "defaultValue" \in DOMAIN EntryAt(p).own'
          /\ DOMAIN ret' = {"type", "tabs"}
          /\ ret'.type = JSStr("tabpanel")
          /\ Len(ret'.tabs) = Len(Cats)
          /\ \A i \in DOMAIN Cats :
                 /\ DOMAIN ret'.tabs[i] = {"name", "title", "items"}
                 /\ ret'.tabs[i].name = Cats[i].own.name
                 /\ ret'.tabs[i].title = Cats[i].own.name
                 /\ Len(ret'.tabs[i].items) = Len(Cats[i].own.contents)
          /\ \A p \in Positions :
                 /\ ret'.tabs[p[1]].items[p[2]] = FieldsButDefault(EntryAt(p))
                 /\ "defaultValue" \notin DOMAIN ret'.tabs[p[1]].items[p[2]]
                 /\ SettingMetadata_control(EntryAt(p)).result
                        = FieldsButDefault(EntryAt(p))]_vars

\* C10 witness: control() returned two tabs, the first with the controls of
\* a checkbox and a select box, the second with that of a note; the checkbox
\* setting still has its default value.
C10_Witness ==
    /\ op = "control"
    /\ Len(ret.tabs) = 2
    /\ Len(ret.tabs[1].items) = 2
    /\ Len(ret.tabs[2].items) = 1
    /\ ret.tabs[1].name = JSStr("General")
    /\ ret.tabs[1].items[1] =
           [name |-> JSStr("a"), label |-> JSStr("Label"),
            type |-> JSStr("checkbox")]
    /\ ret.tabs[1].items[2].type = JSStr("selectbox")
    /\ Len(ret.tabs[1].items[2].items) = 2
    /\ ret.tabs[2].items[1].type = JSStr("htmlpanel")
    /\ EntryAt(<<1, 1>>).own.defaultValue = JSBool(TRUE)

-----------------------------------------------------------------------------
(* Properties of SpecInstall.                                              *)

\* the '$' key starts an insertion: a keypress event of that key is handled
\* while the listener exists and the setting is truthy
StartsInsertion(ev, shortcut) ==
    initialized /\ ev.key = "$" /\ Truthy(shortcut)

====
